---- MODULE Spec2Model ----
(***************************************************************************)
(* TripLogger backend (backend/app.py, backend/db.py): the trips table,    *)
(* the destinations catalog, the users table, the handlers register,       *)
(* login, add_trip, list_trips, trip_detail, update_trip, delete_trip,     *)
(* trip_stats, spending and recommend, and _euclidean_distance on its own. *)
(*                                                                         *)
(* Numbers.  Budgets are whole currency units.  Ratings are kept in tenths *)
(* (4.9 is 49, the valid range [0, 5] is 0..50).  Feature vectors and      *)
(* distances are fixed-point with two decimals (x 100).                    *)
(***************************************************************************)
EXTENDS Integers, Sequences, FiniteSets, TLC

VARIABLES
    trips,          \* rows of table trips, in rowid order
    next_trip_id,   \* the AUTOINCREMENT counter of table trips
    destinations,   \* rows of table destinations, in rowid order
    response,       \* the response of the last request handled
    users,          \* rows of table users, in rowid order
    pending,        \* the register requests between their SELECT and their INSERT
    measured        \* the arguments and results of _euclidean_distance applied on its own

vars == <<trips, next_trip_id, destinations, response, users, pending, measured>>

\* Cap on the rows ever inserted into trips.
MaxTrips == 3

\* ------------------------------------------------------------------ values

\* float("nan"), what float() makes of the JSON value NaN or the string "nan":
\* a value apart from every number of the model.  Every comparison with it is
\* false, so each comparison below is guarded by IsNumber.
NaN == 0 - 1000000

IsNumber(x) == x # NaN

\* Authenticated identities (the subject of the JWT): the seeded demo user and
\* one registered user.
UserIds == {1, 2}

\* -------------------------------------------------------------------- users

\* _seed_demo_user: insert the user demo unless a row of that name exists.
SeedDemoUser(table) ==
    IF \E i \in 1..Len(table) : table[i].username = "demo"
    THEN table
    ELSE Append(table, [id |-> Len(table) + 1, username |-> "demo", password |-> "demo123"])

\* The two register requests the server may be handling at once (one thread
\* each); idle marks a thread that is handling none.
Threads == {1, 2}

NoPending == [t \in Threads |-> [pc |-> "idle", username |-> "", password |-> ""]]

\* _euclidean_distance has not been applied on its own.
NotMeasured == <<>>

\* ------------------------------------------------------------- destinations

\* Seven of the rows of the seed list (name, avg_budget, avg_rating,
\* popularity), in the order of the list.
SeedDestinations ==
    << [name |-> "Paris",   avg_budget |-> 5500, avg_rating |-> 49, popularity |-> 100],
       [name |-> "London",  avg_budget |-> 5800, avg_rating |-> 49, popularity |-> 95],
       [name |-> "Rome",    avg_budget |-> 5200, avg_rating |-> 49, popularity |-> 98],
       [name |-> "Tokyo",     avg_budget |-> 6800, avg_rating |-> 48, popularity |-> 95],
       [name |-> "Singapore", avg_budget |-> 5500, avg_rating |-> 48, popularity |-> 88],
       [name |-> "Bangkok",   avg_budget |-> 2600, avg_rating |-> 48, popularity |-> 92],
       [name |-> "Sydney",    avg_budget |-> 5500, avg_rating |-> 48, popularity |-> 89] >>

\* Six rows of the seed list in the order of the list, Venice among them:
\* Venice and Bangkok share the popularity 92 at the fifth place.
SeedDestinationsTied ==
    << SeedDestinations[1], SeedDestinations[2], SeedDestinations[3],
       [name |-> "Venice", avg_budget |-> 6500, avg_rating |-> 49, popularity |-> 92],
       SeedDestinations[4], SeedDestinations[6] >>

\* _seed_destinations: insert the seed list unless the table already has rows.
SeedIfEmpty(table) == IF Len(table) > 0 THEN table ELSE SeedDestinations

\* -------------------------------------------------------------------- SQL

Min(a, b) == IF a <= b THEN a ELSE b

\* LIMIT n
Limit(rows, n) == SubSeq(rows, 1, Min(n, Len(rows)))

\* A sort that does not keep the order of equal keys: an element goes before
\* the elements of equal key.
RECURSIVE UnstableSortAsc(_)
UnstableSortAsc(pairs) ==
    IF Len(pairs) <= 1 THEN pairs
    ELSE LET rest == UnstableSortAsc(SubSeq(pairs, 1, Len(pairs) - 1))
             x    == pairs[Len(pairs)]
             n    == Cardinality({i \in 1..Len(rest) : rest[i][1] < x[1]})
         IN  SubSeq(rest, 1, n) \o <<x>> \o SubSeq(rest, n + 1, Len(rest))

\* Stable sort, ascending by the first component of each tuple: an element goes
\* after every element whose key is not greater.
RECURSIVE StableSortAsc(_)
StableSortAsc(pairs) ==
    IF Len(pairs) <= 1 THEN pairs
    ELSE LET rest == StableSortAsc(SubSeq(pairs, 1, Len(pairs) - 1))
             x    == pairs[Len(pairs)]
             n    == Cardinality({i \in 1..Len(rest) : rest[i][1] <= x[1]})
         IN  SubSeq(rest, 1, n) \o <<x>> \o SubSeq(rest, n + 1, Len(rest))

\* ORDER BY key ASC, the mutant of OrderByDesc.
OrderByAsc(pairs) ==
    LET sorted == StableSortAsc(pairs)
    IN  [i \in 1..Len(sorted) |-> sorted[i][2]]

\* ORDER BY key DESC over <<key, row>> pairs given in scan (rowid) order.  Rows
\* of equal key come out in scan order: SQLite's sort is stable, and under a
\* LIMIT the scan sequence number is its last sort key.
OrderByDesc(pairs) ==
    LET sorted == StableSortAsc([i \in 1..Len(pairs) |-> <<0 - pairs[i][1], pairs[i][2]>>])
    IN  [i \in 1..Len(sorted) |-> sorted[i][2]]

\* SELECT destination, budget, rating FROM trips WHERE user_id = ?
\*   ORDER BY rating DESC        (origin names the row the record was read from)
UserTrips(u) ==
    LET mine == SelectSeq(trips, LAMBDA t : t.user_id = u)
    IN  OrderByDesc([i \in 1..Len(mine) |->
            <<mine[i].rating,
              [destination |-> mine[i].destination, budget |-> mine[i].budget,
               rating |-> mine[i].rating, origin |-> <<"trip", mine[i].id>>]>>])

\* SELECT name as destination, avg_budget as budget, avg_rating as rating
\*   FROM destinations          (origin names the row the record was read from)
AllDestinations ==
    [i \in 1..Len(destinations) |->
        [destination |-> destinations[i].name, budget |-> destinations[i].avg_budget,
         rating |-> destinations[i].avg_rating, origin |-> <<"catalog", i>>]]

\* The mutant of PopularLimit: one row too many.
PopularLimitSix == 5 + 1

\* ... ORDER BY popularity DESC LIMIT 5
PopularLimit == 5

\* The mutant of PopularDestinations: rows of equal popularity not kept in
\* scan order.
PopularDestinationsUnstable ==
    LET sorted == UnstableSortAsc([i \in 1..Len(destinations) |->
                      <<0 - destinations[i].popularity, AllDestinations[i]>>])
    IN  Limit([i \in 1..Len(sorted) |-> sorted[i][2]], PopularLimit)

PopularDestinations ==
    Limit(OrderByDesc([i \in 1..Len(destinations) |->
              <<destinations[i].popularity, AllDestinations[i]>>]),
          PopularLimit)

\* ------------------------------------------------------------ feature space

\* math.log1p on the budgets of the model, x 100 and rounded.
Ln1p100(b) ==
    CASE b = 2600 -> 786
      [] b = 5200 -> 856
      [] b = 5500 -> 861
      [] b = 5800 -> 867
      [] b = 6500 -> 878
      [] b = 6800 -> 882

\* math.log1p raises ValueError (math domain error) for an argument <= -1.
Log1pFails(b) == b <= -1

\* _vectorize_trip: (log1p(budget) * 2.0, rating / 5.0 * 1.0), x 100.
VectorizeTrip(trip) == <<Ln1p100(trip.budget) * 2, (trip.rating * 10) \div 5>>

\* math.sqrt, rounded down (Newton's iteration from above).
RECURSIVE SqrtFrom(_, _)
SqrtFrom(n, x) ==
    LET y == (x + n \div x) \div 2
    IN  IF y >= x THEN x ELSE SqrtFrom(n, y)

Sqrt(n) == IF n = 0 THEN 0 ELSE SqrtFrom(n, n)

\* A positive float below every unit of the fixed point, so small that its
\* square is below the least positive double (2e-201, the component of a
\* rating of 1e-200), and its negative.
Tiny == 0 - 2000000

NegTiny == 0 - 2000001

\* x - y in IEEE double: exact between numbers of the fixed point, and a
\* number that is not 0 absorbs the tiny one.
FloatSub(x, y) ==
    CASE x = y -> 0
      [] x = Tiny /\ y = 0 -> Tiny
      [] x = 0 /\ y = Tiny -> NegTiny
      [] x = Tiny /\ y # 0 -> 0 - y
      [] y = Tiny /\ x # 0 -> x
      [] OTHER -> x - y

\* d ** 2 in IEEE double: the square of the tiny number underflows to 0.0.
FloatSquare(d) == IF d \in {Tiny, NegTiny} THEN 0 ELSE d * d

\* _euclidean_distance: sqrt(sum((x - y) ** 2 for x, y in zip(a, b)))
EuclideanDistance(a, b) ==
    Sqrt(FloatSquare(FloatSub(a[1], b[1])) + FloatSquare(FloatSub(a[2], b[2])))

\* _euclidean_distance applied on its own to a pair of feature vectors, in
\* both orders and to the first vector and itself.
Measure(a, b) ==
    /\ measured' = <<[a |-> a, b |-> b, ab |-> EuclideanDistance(a, b),
                      ba |-> EuclideanDistance(b, a), aa |-> EuclideanDistance(a, a)]>>
    /\ UNCHANGED <<trips, next_trip_id, destinations, response, users, pending>>

\* ------------------------------------------------------------- recommend

\* The mutant of K: one neighbour too many.
KPlusOne == 3 + 1

\* k = 3, the number of neighbours.
K == 3

\* len(user_trips) < 3 selects the popular destinations.
ColdStartThreshold == 3

AdvisoryMessage == "Add trips to get personalized recommendations."

\* str() of a float column: a budget, and a rating kept in tenths.
FormatBudget(b) == ToString(b) \o ".0"
FormatRating(r) == ToString(r \div 10) \o "." \o ToString(r % 10)

\* The fields every response of the model has.  keys are the keys of the JSON
\* body (of each row, when the body is a list); user and target are not sent:
\* they name the caller and the row of top_trip.
Response(op, u, status, keys) ==
    [op |-> op, user |-> u, status |-> status, keys |-> keys,
     recommendations |-> <<>>, message |-> "", error |-> "", id |-> 0, target |-> 0,
     rows |-> <<>>, username |-> "", counts |-> <<>>, total |-> 0, average |-> 0]

\* The mutant of ColdStartResponse: an empty result treated as a failure.
ColdStartFailsWhenEmpty(u) ==
    LET dest_rows == PopularDestinations
    IN  IF Len(dest_rows) = 0
        THEN [Response("recommend", u, 404, {"error"}) EXCEPT !.error = "No destinations"]
        ELSE [Response("recommend", u, 200, {"recommendations", "message"}) EXCEPT
                !.recommendations = [i \in 1..Len(dest_rows) |->
                    [destination |-> dest_rows[i].destination, budget |-> dest_rows[i].budget,
                     rating |-> dest_rows[i].rating, origin |-> dest_rows[i].origin,
                     reason |-> "Popular destination worldwide", is_new |-> TRUE]],
                !.message = AdvisoryMessage]

\* The cold-start branch: the popular destinations, each marked new.
ColdStartResponse(u) ==
    LET dest_rows == PopularDestinations
    IN  [Response("recommend", u, 200, {"recommendations", "message"}) EXCEPT
            !.recommendations = [i \in 1..Len(dest_rows) |->
                [destination |-> dest_rows[i].destination, budget |-> dest_rows[i].budget,
                 rating |-> dest_rows[i].rating, origin |-> dest_rows[i].origin,
                 reason |-> "Popular destination worldwide", is_new |-> TRUE]],
            !.message = AdvisoryMessage]

\* visited_destinations = {trip["destination"] for trip in user_trips}
VisitedDestinations(user_trips) ==
    {user_trips[i].destination : i \in 1..Len(user_trips)}

\* The mutant of UnvisitedDestinations: the visited rows not filtered out.
UnvisitedUnfiltered(user_trips) == AllDestinations

\* [d for d in all_destinations if d["destination"] not in visited_destinations]
UnvisitedDestinations(user_trips) ==
    SelectSeq(AllDestinations,
              LAMBDA d : d.destination \notin VisitedDestinations(user_trips))

\* The mutant of AllCandidates: the target trip left among the candidates.
AllCandidatesWithTarget(user_trips) ==
    UnvisitedDestinations(user_trips) \o user_trips

\* all_candidates = unvisited_destinations + user_trips[1:]
AllCandidates(user_trips) ==
    UnvisitedDestinations(user_trips) \o Tail(user_trips)

\* The mutant of IsNew: every recommendation marked new.
AlwaysNew(candidate, user_trips) == TRUE

\* is_new = candidate["destination"] not in visited_destinations
IsNew(candidate, user_trips) ==
    candidate.destination \notin VisitedDestinations(user_trips)

\* The (dist, candidate, is_new) triples in candidate order.
Distances(user_trips) ==
    LET target_vec == VectorizeTrip(user_trips[1])
        cands      == AllCandidates(user_trips)
    IN  [i \in 1..Len(cands) |->
            <<EuclideanDistance(target_vec, VectorizeTrip(cands[i])),
              cands[i], IsNew(cands[i], user_trips)>>]

\* The mutant of SortByDistance: a sort that is not stable.
SortByDistanceUnstable(distances) == UnstableSortAsc(distances)

\* distances.sort(key=lambda x: x[0]): Python's list.sort is stable.
SortByDistance(distances) == StableSortAsc(distances)

\* top_recommendations = distances[:k]
TopRecommendations(user_trips) ==
    LET sorted == SortByDistance(Distances(user_trips))
    IN  SubSeq(sorted, 1, Min(K, Len(sorted)))

\* The reason text of one recommendation (the sparkle before NEW left out).
Reason(trip, is_new, top_trip) ==
    (IF is_new THEN "NEW - " ELSE "")
    \o "Similar budget ($" \o FormatBudget(trip.budget) \o ") and rating ("
    \o FormatRating(trip.rating) \o ") to your top-rated trip to "
    \o top_trip.destination \o "."

\* The personalized branch.  _vectorize_trip raises on top_trip or on a
\* candidate with budget <= -1; nothing catches it and Flask answers 500.
PersonalizedResponse(u, user_trips) ==
    LET top_trip == user_trips[1]
        cands    == AllCandidates(user_trips)
    IN  IF Log1pFails(top_trip.budget)
           \/ \E i \in 1..Len(cands) : Log1pFails(cands[i].budget)
        THEN Response("recommend", u, 500, {})
        ELSE LET top == TopRecommendations(user_trips)
             IN  [Response("recommend", u, 200, {"recommendations"}) EXCEPT
                    !.recommendations = [i \in 1..Len(top) |->
                        [destination |-> top[i][2].destination, budget |-> top[i][2].budget,
                         rating |-> top[i][2].rating, origin |-> top[i][2].origin,
                         reason |-> Reason(top[i][2], top[i][3], top_trip),
                         is_new |-> top[i][3]]],
                    !.target = top_trip.origin[2]]

\* The mutant of Recommend: the catalog sorted in place by popularity.
RecommendSortingCatalog(u) ==
    /\ response' = (IF Len(UserTrips(u)) < ColdStartThreshold
                    THEN ColdStartResponse(u)
                    ELSE PersonalizedResponse(u, UserTrips(u)))
    /\ destinations' = OrderByDesc([i \in 1..Len(destinations) |->
                            <<destinations[i].popularity, destinations[i]>>])
    /\ UNCHANGED <<trips, next_trip_id, users, pending, measured>>

\* GET /recommend
Recommend(u) ==
    /\ response' = (IF Len(UserTrips(u)) < ColdStartThreshold
                    THEN ColdStartResponse(u)
                    ELSE PersonalizedResponse(u, UserTrips(u)))
    /\ UNCHANGED <<trips, next_trip_id, destinations, users, pending, measured>>

\* ------------------------------------------------------------ trip requests

\* str.strip() on the destination names of the model.
Strip(s) ==
    CASE s = " Paris " -> "Paris"
      [] OTHER -> s

\* The JSON bodies sent to POST /trips and PUT /trips/<id>.  Dates are day
\* numbers (ISO dates parse to them and are stored back as ISO text).
DestinationInputs == {" Paris "}
DateInputs        == {<<1, 2>>, <<2, 1>>}
BudgetInputs      == {-1, 5500}
RatingInputs      == {-1, 49, 51, NaN}

TripData ==
    {[destination |-> d, start_date |-> dt[1], end_date |-> dt[2], budget |-> b, rating |-> r] :
        d \in DestinationInputs, dt \in DateInputs, b \in BudgetInputs, r \in RatingInputs}

\* add_trip: k not in data or data[k] in [None, ""].  The bodies of the model
\* carry all five required keys; of their values only a destination can be "".
MissingFields(data) == {k \in {"destination"} : data[k] = ""}

\* The mutant of AddRatingRejected: no check, the table's CHECK left to catch it.
AddRatingUnchecked(rating) == FALSE

\* add_trip: rating < 0 or rating > 5 (both comparisons are false for NaN).
AddRatingRejected(rating) == IsNumber(rating) /\ (rating < 0 \/ rating > 50)

\* Table trips: budget REAL NOT NULL, rating REAL NOT NULL CHECK (rating >= 0
\* AND rating <= 5).  sqlite3 binds NaN as NULL.
TripsConstraintFails(budget, rating) ==
    \/ ~IsNumber(budget)
    \/ ~IsNumber(rating)
    \/ rating < 0
    \/ rating > 50

\* add_trip: end_date < start_date, on the parsed dates.
AddDatesRejected(data) == data.end_date < data.start_date

\* POST /trips
AddTrip(u, data) ==
    /\ next_trip_id <= MaxTrips
    /\ IF MissingFields(data) # {}
       THEN /\ response' = [Response("add_trip", u, 400, {"error"}) EXCEPT
                                !.error = "Missing fields"]
            /\ UNCHANGED <<trips, next_trip_id>>
       ELSE IF AddDatesRejected(data)
       THEN /\ response' = [Response("add_trip", u, 400, {"error"}) EXCEPT
                                !.error = "End date cannot be before start date."]
            /\ UNCHANGED <<trips, next_trip_id>>
       ELSE IF AddRatingRejected(data.rating)
       THEN /\ response' = [Response("add_trip", u, 400, {"error"}) EXCEPT
                                !.error = "Rating must be between 0 and 5."]
            /\ UNCHANGED <<trips, next_trip_id>>
       ELSE IF TripsConstraintFails(data.budget, data.rating)
       THEN \* the INSERT raises; conn.rollback()
            /\ response' = [Response("add_trip", u, 500, {"error"}) EXCEPT
                                !.error = "Database error"]
            /\ UNCHANGED <<trips, next_trip_id>>
       ELSE /\ trips' = Append(trips,
                    [id |-> next_trip_id, destination |-> Strip(data.destination),
                     start_date |-> data.start_date, end_date |-> data.end_date,
                     budget |-> data.budget, rating |-> data.rating, user_id |-> u])
            /\ next_trip_id' = next_trip_id + 1
            /\ response' = [Response("add_trip", u, 201, {"id"}) EXCEPT !.id = next_trip_id]
    /\ UNCHANGED <<destinations, users, pending, measured>>

\* The mutant of OwnTrip: the row looked up by its id alone.
OwnTripAnyUser(trip_id, u) ==
    {i \in 1..Len(trips) : trips[i].id = trip_id}

\* SELECT id FROM trips WHERE id = ? AND user_id = ?
OwnTrip(trip_id, u) ==
    {i \in 1..Len(trips) : trips[i].id = trip_id /\ trips[i].user_id = u}

\* update_trip: not (0 <= rating <= 5) (true for NaN).
UpdateRatingRejected(rating) == ~(IsNumber(rating) /\ 0 <= rating /\ rating <= 50)

\* The mutant of UpdateDatesRejected: the dates not compared.
UpdateDatesUnchecked(data) == FALSE

\* update_trip: start_date > end_date, on the parsed dates.
UpdateDatesRejected(data) == data.start_date > data.end_date

\* PUT /trips/<trip_id>
UpdateTrip(u, trip_id, data) ==
    \* the bodies of the model carry all five required keys
    /\ IF IsNumber(data.budget) /\ data.budget < 0
       THEN /\ response' = [Response("update_trip", u, 400, {"error"}) EXCEPT
                                !.error = "Budget must be non-negative"]
            /\ UNCHANGED trips
       ELSE IF UpdateRatingRejected(data.rating)
       THEN /\ response' = [Response("update_trip", u, 400, {"error"}) EXCEPT
                                !.error = "Rating must be between 0 and 5"]
            /\ UNCHANGED trips
       ELSE IF UpdateDatesRejected(data)
       THEN /\ response' = [Response("update_trip", u, 400, {"error"}) EXCEPT
                                !.error = "Start date must be before end date"]
            /\ UNCHANGED trips
       ELSE IF OwnTrip(trip_id, u) = {}
       THEN /\ response' = [Response("update_trip", u, 404, {"error"}) EXCEPT
                                !.error = "Trip not found"]
            /\ UNCHANGED trips
       ELSE IF TripsConstraintFails(data.budget, data.rating)
       THEN \* the UPDATE raises; nothing is committed
            /\ response' = Response("update_trip", u, 500, {})
            /\ UNCHANGED trips
       ELSE /\ trips' = [i \in 1..Len(trips) |->
                    IF i \in OwnTrip(trip_id, u)
                    THEN [trips[i] EXCEPT !.destination = data.destination,
                                          !.start_date = data.start_date,
                                          !.end_date = data.end_date,
                                          !.budget = data.budget,
                                          !.rating = data.rating]
                    ELSE trips[i]]
            /\ response' = [Response("update_trip", u, 200, {"message"}) EXCEPT
                                !.message = "Trip updated successfully"]
    /\ UNCHANGED <<next_trip_id, destinations, users, pending, measured>>

\* DELETE /trips/<trip_id>
DeleteTrip(u, trip_id) ==
    /\ IF OwnTrip(trip_id, u) = {}
       THEN /\ response' = [Response("delete_trip", u, 404, {"error"}) EXCEPT
                                !.error = "Trip not found"]
            /\ UNCHANGED trips
       ELSE /\ trips' = SelectSeq(trips, LAMBDA t : ~(t.id = trip_id /\ t.user_id = u))
            /\ response' = [Response("delete_trip", u, 200, {"message"}) EXCEPT
                                !.message = "Trip deleted successfully"]
    /\ UNCHANGED <<next_trip_id, destinations, users, pending, measured>>

\* ------------------------------------------------------------ read requests

\* The columns list_trips and trip_detail select.
TripColumns(t) ==
    [id |-> t.id, destination |-> t.destination, start_date |-> t.start_date,
     end_date |-> t.end_date, budget |-> t.budget, rating |-> t.rating]

\* The place of the destination names of the model in SQLite's BINARY
\* collation (a space sorts before a letter).
DestinationRank(s) ==
    CASE s = " Paris " -> 1
      [] s = "Paris" -> 2

\* SELECT id, destination, start_date, end_date, budget, rating
\*   FROM trips WHERE user_id = ? ORDER BY destination ASC
ListedTrips(u) ==
    LET mine   == SelectSeq(trips, LAMBDA t : t.user_id = u)
        sorted == StableSortAsc([i \in 1..Len(mine) |->
                      <<DestinationRank(mine[i].destination), TripColumns(mine[i])>>])
    IN  [i \in 1..Len(sorted) |-> sorted[i][2]]

\* GET /trips
ListTrips(u) ==
    /\ response' = [Response("list_trips", u, 200,
                        {"id", "destination", "start_date", "end_date", "budget", "rating"})
                        EXCEPT !.rows = ListedTrips(u)]
    /\ UNCHANGED <<trips, next_trip_id, destinations, users, pending, measured>>

\* GET /trips/<trip_id>
TripDetail(u, trip_id) ==
    /\ IF OwnTrip(trip_id, u) = {}
       THEN response' = [Response("trip_detail", u, 404, {"error"}) EXCEPT
                            !.error = "Trip not found"]
       ELSE response' = [Response("trip_detail", u, 200,
                            {"id", "destination", "start_date", "end_date", "budget", "rating"})
                            EXCEPT !.rows = <<TripColumns(trips[CHOOSE i \in OwnTrip(trip_id, u) : TRUE])>>]
    /\ UNCHANGED <<trips, next_trip_id, destinations, users, pending, measured>>

\* row["start_date"][:7]: dates are day numbers counted from 2024-01-01.
MonthKey(d) == IF d <= 31 THEN "2024-01" ELSE "2024-02"

\* collections.Counter over a list: <<key, count>> pairs in the order in
\* which the keys are first met.
RECURSIVE CountKeys(_)
CountKeys(keys) ==
    IF Len(keys) = 0 THEN <<>>
    ELSE LET rest == CountKeys(SubSeq(keys, 1, Len(keys) - 1))
             x    == keys[Len(keys)]
         IN  IF \E i \in 1..Len(rest) : rest[i][1] = x
             THEN [i \in 1..Len(rest) |->
                      IF rest[i][1] = x THEN <<x, rest[i][2] + 1>> ELSE rest[i]]
             ELSE Append(rest, <<x, 1>>)

\* Counter.most_common(5): by count, the greatest first, equal counts in the
\* order of the counter.
MostCommon(counter) ==
    Limit(OrderByDesc([i \in 1..Len(counter) |->
              <<counter[i][2], [destination |-> counter[i][1], count |-> counter[i][2]]>>]), 5)

\* GET /trips/stats
TripStats(u) ==
    /\ LET rows == SelectSeq(trips, LAMBDA t : t.user_id = u)
       IN  response' = [Response("trip_stats", u, 200,
                            {"trips_by_month", "favorite_destinations"}) EXCEPT
                !.counts = CountKeys([i \in 1..Len(rows) |-> MonthKey(rows[i].start_date)]),
                !.rows = MostCommon(CountKeys([i \in 1..Len(rows) |-> rows[i].destination]))]
    /\ UNCHANGED <<trips, next_trip_id, destinations, users, pending, measured>>

RECURSIVE Sum(_)
Sum(numbers) ==
    IF Len(numbers) = 0 THEN 0 ELSE numbers[1] + Sum(Tail(numbers))

\* GET /trips/spending (the average x 100, rounded down)
Spending(u) ==
    /\ LET rows    == SelectSeq(trips, LAMBDA t : t.user_id = u)
           budgets == [i \in 1..Len(rows) |-> rows[i].budget]
       IN  response' = [Response("spending", u, 200, {"total", "average"}) EXCEPT
                !.total = Sum(budgets),
                !.average = IF Len(budgets) = 0 THEN 0
                            ELSE (Sum(budgets) * 100) \div Len(budgets)]
    /\ UNCHANGED <<trips, next_trip_id, destinations, users, pending, measured>>

\* ------------------------------------------------------------ auth requests

\* (data.get("username") or "").strip().lower() on the names of the model.
NormalizeUsername(s) ==
    CASE s = " Ann " -> "ann"
      [] OTHER -> s

\* len(password) of the passwords of the model.
PasswordLen(p) ==
    CASE p = "" -> 0
      [] p = "abc" -> 3
      [] p = "secret1" -> 7
      [] p = "demo123" -> 7

\* The JSON bodies sent to /auth/register and /auth/login.
UsernameInputs == {"", " Ann ", "ann", "bob", "demo"}
PasswordInputs == {"", "abc", "secret1", "demo123"}

AuthData == [username : UsernameInputs, password : PasswordInputs]

\* SELECT id FROM users WHERE username = ?
UserNamed(username) == {i \in 1..Len(users) : users[i].username = username}

\* POST /auth/register, from the request to the SELECT: thread t validates
\* the body and looks the name up.  No statement is open and no lock is held
\* when the SELECT has returned no row.
RegisterSelect(t, data) ==
    /\ pending[t].pc = "idle"
    /\ LET username == NormalizeUsername(data.username)
       IN  IF username = "" \/ data.password = ""
           THEN /\ response' = [Response("register", 0, 400, {"error"}) EXCEPT
                                    !.error = "Username and password are required."]
                /\ UNCHANGED pending
           ELSE IF PasswordLen(data.password) < 6
           THEN /\ response' = [Response("register", 0, 400, {"error"}) EXCEPT
                                    !.error = "Password must be at least 6 characters."]
                /\ UNCHANGED pending
           ELSE IF UserNamed(username) # {}
           THEN /\ response' = [Response("register", 0, 400, {"error"}) EXCEPT
                                    !.error = "Username already exists."]
                /\ UNCHANGED pending
           ELSE /\ pending' = [pending EXCEPT ![t] =
                                   [pc |-> "insert", username |-> username,
                                    password |-> data.password]]
                /\ UNCHANGED response
    /\ UNCHANGED <<trips, next_trip_id, destinations, users, measured>>

\* POST /auth/register, the INSERT, the commit and the response.  username is
\* UNIQUE: the INSERT of a name another thread has committed meanwhile raises
\* sqlite3.IntegrityError, which nothing catches, and Flask answers 500.
RegisterInsert(t) ==
    /\ pending[t].pc = "insert"
    /\ IF UserNamed(pending[t].username) # {}
       THEN /\ response' = [Response("register", 0, 500, {}) EXCEPT
                                !.username = pending[t].username]
            /\ UNCHANGED users
       ELSE /\ users' = Append(users, [id |-> Len(users) + 1,
                                       username |-> pending[t].username,
                                       password |-> pending[t].password])
            /\ response' = [Response("register", Len(users) + 1, 201,
                                {"access_token", "username", "user_id"}) EXCEPT
                                !.username = pending[t].username]
    /\ pending' = [pending EXCEPT ![t] = NoPending[t]]
    /\ UNCHANGED <<trips, next_trip_id, destinations, measured>>

\* POST /auth/login (the stored password stands for its hash)
Login(data) ==
    /\ LET username == NormalizeUsername(data.username)
       IN  IF username = "" \/ data.password = ""
           THEN response' = [Response("login", 0, 400, {"error"}) EXCEPT
                                !.error = "Username and password are required."]
           ELSE IF \A i \in UserNamed(username) : users[i].password # data.password
           THEN response' = [Response("login", 0, 401, {"error"}) EXCEPT
                                !.error = "Invalid credentials."]
           ELSE response' = [Response("login",
                                users[CHOOSE i \in UserNamed(username) : TRUE].id, 200,
                                {"access_token", "username", "user_id"}) EXCEPT
                                !.username = username]
    /\ UNCHANGED <<trips, next_trip_id, destinations, users, pending, measured>>

\* ----------------------------------------------------------- specification

\* create_app on a fresh database file: init_db creates the tables empty and
\* seeds the destinations.
Init ==
    /\ trips = <<>>
    /\ next_trip_id = 1
    /\ destinations = SeedIfEmpty(<<>>)
    /\ response = Response("none", 0, 0, {})
    /\ users = SeedDemoUser(<<>>)
    /\ pending = NoPending
    /\ measured = NotMeasured

\* Trip ids a request may name: the ids given out so far and the next one.
TripIds == 1..next_trip_id

Next ==
    \/ \E u \in UserIds, data \in TripData : AddTrip(u, data)
    \/ \E u \in UserIds, trip_id \in TripIds, data \in TripData : UpdateTrip(u, trip_id, data)
    \/ \E u \in UserIds, trip_id \in TripIds : DeleteTrip(u, trip_id)
    \/ \E u \in UserIds : Recommend(u)

Spec == Init /\ [][Next]_vars

\* The engine on its own: recommend applied to a trips table and a catalog
\* drawn from bounded sets.  The rows are rows add_trip and update_trip store
\* (a name as update_trip stores it unstripped), every combination for user 1
\* and two rows for user 2; the catalogs are prefixes of the seed list, the
\* empty one included, and the rows with a tie at the fifth place.
EngineRows ==
    [destination : {"Paris", " Paris "}, budget : {2600, 5500}, rating : {48, 49},
     user_id : {1}]
    \cup {[destination |-> "Paris", budget |-> 2600, rating |-> 49, user_id |-> 2],
          [destination |-> " Paris ", budget |-> 5500, rating |-> 48, user_id |-> 2]}

Catalogs ==
    {SubSeq(SeedDestinations, 1, n) : n \in {0, 1, Len(SeedDestinations)}}
    \cup {SeedDestinationsTied}

InitEngine ==
    /\ \E n \in 0..MaxTrips : \E rows \in [1..n -> EngineRows] :
          trips = [i \in 1..n |->
                      [id |-> i, destination |-> rows[i].destination,
                       start_date |-> 1, end_date |-> 2, budget |-> rows[i].budget,
                       rating |-> rows[i].rating, user_id |-> rows[i].user_id]]
    /\ next_trip_id = Len(trips) + 1
    /\ destinations \in Catalogs
    /\ response = Response("none", 0, 0, {})
    /\ users = SeedDemoUser(<<>>)
    /\ pending = NoPending
    /\ measured = NotMeasured

NextEngine == \E u \in UserIds : Recommend(u)

SpecEngine == InitEngine /\ [][NextEngine]_vars

\* The whole application from a fresh database: every handler, the trip
\* requests with bodies that differ in their dates only, one body for register
\* and the matching logins, one register request at a time (two at a time are
\* in SpecAuth).
AppTripData == {data \in TripData : data.budget = 5500 /\ data.rating = 49}

AppAuthData == {[username |-> " Ann ", password |-> "secret1"],
                [username |-> "demo", password |-> "demo123"]}

NextApp ==
    \/ \E u \in UserIds, data \in AppTripData : AddTrip(u, data)
    \/ \E u \in UserIds, trip_id \in TripIds, data \in AppTripData : UpdateTrip(u, trip_id, data)
    \/ \E u \in UserIds, trip_id \in TripIds : DeleteTrip(u, trip_id)
    \/ \E u \in UserIds : Recommend(u)
    \/ \E u \in UserIds : ListTrips(u)
    \/ \E u \in UserIds, trip_id \in TripIds : TripDetail(u, trip_id)
    \/ \E u \in UserIds : TripStats(u)
    \/ \E u \in UserIds : Spending(u)
    \/ \E data \in AppAuthData : RegisterSelect(1, data)
    \/ RegisterInsert(1)
    \/ \E data \in AppAuthData : Login(data)

SpecApp == Init /\ [][NextApp]_vars

\* _euclidean_distance on its own, on the feature vectors of budgets 0,
\* 1e-200, 2600 and 5500 and ratings 0, 1e-200, 4.8 and 4.9.
FeatureVectors == {0, Tiny, 1572, 1722} \X {0, Tiny, 96, 98}

NextDistance == \E a \in FeatureVectors, b \in FeatureVectors : Measure(a, b)

SpecDistance == Init /\ [][NextDistance]_vars

\* The auth requests on their own, two register requests at a time.
NextAuth ==
    \/ \E t \in Threads, data \in AuthData : RegisterSelect(t, data)
    \/ \E t \in Threads : RegisterInsert(t)
    \/ \E data \in AuthData : Login(data)

SpecAuth == Init /\ [][NextAuth]_vars

\* ------------------------------------------------------------------ claims

\* The rows of table trips that belong to user u, and their destination names.
TripsOf(u) == {i \in 1..Len(trips) : trips[i].user_id = u}

NamesOf(u) == {trips[i].destination : i \in TripsOf(u)}

RecommendAnswered == response.op = "recommend"

\* A response of the cold-start shape: status 200, recommendations and message.
IsColdStart ==
    /\ RecommendAnswered
    /\ response.status = 200
    /\ response.keys = {"recommendations", "message"}
    /\ response.message = AdvisoryMessage

\* A response of the personalized shape: status 200, recommendations only.
IsPersonalized ==
    /\ RecommendAnswered
    /\ response.status = 200
    /\ response.keys = {"recommendations"}

Recs == response.recommendations

\* The record (destination, budget, rating) a recommendation's origin names.
OriginRecord(o) ==
    IF o[1] = "catalog"
    THEN [destination |-> destinations[o[2]].name, budget |-> destinations[o[2]].avg_budget,
          rating |-> destinations[o[2]].avg_rating]
    ELSE LET t == CHOOSE t \in {trips[i] : i \in 1..Len(trips)} : t.id = o[2]
         IN  [destination |-> t.destination, budget |-> t.budget, rating |-> t.rating]

CarriesOrigin(rec) ==
    /\ rec.destination = OriginRecord(rec.origin).destination
    /\ rec.budget = OriginRecord(rec.origin).budget
    /\ rec.rating = OriginRecord(rec.origin).rating

\* The candidates of the caller as the claims describe them: the catalog rows
\* whose name is no destination of the caller's trips, and the caller's trips
\* other than the target.
CatalogCandidates ==
    {<<"catalog", i>> : i \in {j \in 1..Len(destinations) :
                                  destinations[j].name \notin NamesOf(response.user)}}

TripCandidates ==
    {<<"trip", trips[i].id>> : i \in {j \in TripsOf(response.user) :
                                         trips[j].id # response.target}}

Candidates == CatalogCandidates \cup TripCandidates

Chosen == {Recs[i].origin : i \in 1..Len(Recs)}

\* Distance of a candidate to the target trip of the response.
DistToTarget(o) ==
    EuclideanDistance(VectorizeTrip(OriginRecord(<<"trip", response.target>>)),
                      VectorizeTrip(OriginRecord(o)))

\* Position of a candidate in unvisited ++ userTrips[1:].
ConcatPos(o) ==
    IF o[1] = "catalog" THEN o[2]
    ELSE Len(destinations)
         + (CHOOSE p \in 1..Len(UserTrips(response.user)) :
                UserTrips(response.user)[p].origin = o)

\* C1: recommend answers by the number of the caller's trips alone: with
\* fewer than 3 trips the cold-start response with the advisory message, with
\* 3 or more the personalized response without a message field.
C1_PathByTripCount ==
    RecommendAnswered =>
        IF Cardinality(TripsOf(response.user)) < 3 THEN IsColdStart ELSE IsPersonalized

\* C2: with fewer than 3 trips the list is the min(5, |catalog|) destinations
\* of highest popularity in descending popularity order, every item new with
\* the reason "Popular destination worldwide", and it does not depend on the
\* trips (it is the list a caller without trips gets).
C2_ColdStartPopular ==
    (RecommendAnswered /\ Cardinality(TripsOf(response.user)) < 3) =>
        /\ Len(Recs) = Min(5, Len(destinations))
        /\ \A i \in 1..Len(Recs) :
              /\ Recs[i].origin[1] = "catalog"
              /\ CarriesOrigin(Recs[i])
              /\ Recs[i].is_new = TRUE
              /\ Recs[i].reason = "Popular destination worldwide"
        /\ \A i, j \in 1..Len(Recs) :
              i < j => /\ Recs[i].origin # Recs[j].origin
                       /\ destinations[Recs[i].origin[2]].popularity
                            >= destinations[Recs[j].origin[2]].popularity
        /\ \A c \in 1..Len(destinations) : \A i \in 1..Len(Recs) :
              <<"catalog", c>> \notin Chosen =>
                  destinations[c].popularity <= destinations[Recs[i].origin[2]].popularity
        /\ Recs = ColdStartResponse(0).recommendations

C2_Witness ==
    /\ IsColdStart
    /\ Cardinality(TripsOf(response.user)) = 2
    /\ "Paris" \in NamesOf(response.user)
    /\ Len(destinations) > 5
    /\ Len(Recs) = 5

\* C3: with 3 or more trips the recommendations are the 3 nearest candidates
\* to the target: each is an unvisited catalog destination or one of the
\* caller's other trips, they come in non-decreasing distance, and no candidate
\* left out is strictly nearer than one chosen.
C3_NearestCandidates ==
    IsPersonalized =>
        /\ Len(Recs) = Min(3, Cardinality(Candidates))
        /\ \A i \in 1..Len(Recs) : Recs[i].origin \in Candidates /\ CarriesOrigin(Recs[i])
        /\ \A i, j \in 1..Len(Recs) :
              i < j => /\ Recs[i].origin # Recs[j].origin
                       /\ DistToTarget(Recs[i].origin) <= DistToTarget(Recs[j].origin)
        /\ \A c \in Candidates \ Chosen : \A r \in Chosen :
              DistToTarget(c) >= DistToTarget(r)

C3_Witness ==
    /\ IsPersonalized
    /\ CatalogCandidates # {} /\ CatalogCandidates # {<<"catalog", i>> : i \in 1..Len(destinations)}
    /\ \E c \in Candidates \ Chosen : \E r \in Chosen : DistToTarget(c) > DistToTarget(r)
    /\ \E i, j \in 1..Len(Recs) : DistToTarget(Recs[i].origin) < DistToTarget(Recs[j].origin)

\* C4: the personalized response never has more than 3 recommendations.
C4_AtMostK == IsPersonalized => Len(Recs) <= 3

C4_Witness == IsPersonalized /\ Cardinality(Candidates) > 3 /\ Len(Recs) = 3

\* C5: candidates at equal distance keep the order of unvisited ++
\* userTrips[1:], among the recommendations and across the cut at position 3.
C5_TieOrder ==
    IsPersonalized =>
        /\ \A i, j \in 1..Len(Recs) :
              (i < j /\ DistToTarget(Recs[i].origin) = DistToTarget(Recs[j].origin))
                  => ConcatPos(Recs[i].origin) < ConcatPos(Recs[j].origin)
        /\ \A c \in Candidates \ Chosen : \A r \in Chosen :
              DistToTarget(c) = DistToTarget(r) => ConcatPos(r) < ConcatPos(c)

C5_Witness ==
    /\ IsPersonalized
    /\ \E i, j \in 1..Len(Recs) :
          /\ i < j
          /\ DistToTarget(Recs[i].origin) = DistToTarget(Recs[j].origin)
          /\ Recs[i].origin[1] = "catalog"
          /\ Recs[j].origin[1] = "trip"
    /\ \E c \in Candidates \ Chosen : \E r \in Chosen :
          DistToTarget(c) = DistToTarget(r) /\ c[1] = "trip" /\ r[1] = "trip"

\* C6: a personalized recommendation is new exactly when it comes from the
\* catalog, and no new recommendation names a destination of the caller's trips.
C6_IsNewIffCatalog ==
    IsPersonalized =>
        \A i \in 1..Len(Recs) :
            /\ Recs[i].is_new = (Recs[i].origin[1] = "catalog")
            /\ Recs[i].is_new => Recs[i].destination \notin NamesOf(response.user)

C6_Witness ==
    /\ IsPersonalized
    /\ \E i, j \in 1..Len(Recs) : Recs[i].is_new /\ ~Recs[j].is_new

\* C7: the target of a personalized response is the first of the caller's
\* trips by rating, no trip of the caller is rated higher, and the target row
\* is not among the recommendations.
C7_TargetTopRated ==
    IsPersonalized =>
        /\ \E i \in TripsOf(response.user) : trips[i].id = response.target
        /\ UserTrips(response.user)[1].origin = <<"trip", response.target>>
        /\ \A i \in TripsOf(response.user) :
              trips[i].rating <= OriginRecord(<<"trip", response.target>>).rating
        /\ <<"trip", response.target>> \notin Chosen

C7_Witness ==
    /\ IsPersonalized
    /\ \E i \in TripsOf(response.user) :
          trips[i].rating < OriginRecord(<<"trip", response.target>>).rating
    /\ \E i \in TripsOf(response.user) :
          /\ trips[i].id # response.target
          /\ trips[i].rating = OriginRecord(<<"trip", response.target>>).rating
          /\ <<"trip", trips[i].id>> \in Chosen

\* C8: no row of table trips has a negative budget.
C8_BudgetNonNegative == \A i \in 1..Len(trips) : trips[i].budget >= 0

\* A rating that is a number outside [0, 5].
OutOfRange(rating) == IsNumber(rating) /\ (rating < 0 \/ rating > 50)

RatingsInRange ==
    \A i \in 1..Len(trips) :
        IsNumber(trips[i].rating) /\ 0 <= trips[i].rating /\ trips[i].rating <= 50

\* A step is no add_trip or update_trip request with a rating out of range,
\* or it answers 400 and leaves the table as it was.
OutOfRangeRejected ==
    \/ response'.op \notin {"add_trip", "update_trip"}
    \/ (response'.status = 400 /\ trips' = trips)
    \/ ~\E u \in UserIds \cap {response'.user} :
            \E data \in {d \in TripData : OutOfRange(d.rating)} :
                \/ AddTrip(u, data)
                \/ \E trip_id \in TripIds : UpdateTrip(u, trip_id, data)

C10_EmptyCatalogColdStart ==
    (RecommendAnswered /\ Len(destinations) = 0
        /\ Cardinality(TripsOf(response.user)) < 3) =>
            IsColdStart /\ Recs = <<>>

C10_Witness ==
    /\ RecommendAnswered
    /\ Len(destinations) = 0
    /\ Cardinality(TripsOf(response.user)) = 2
    /\ IsColdStart

\* No step changes the destinations table, and a step that ends in a
\* response of recommend changes the trips table neither.
CatalogUntouched ==
    /\ destinations' = destinations
    /\ response'.op = "recommend" => trips' = trips

\* C12: the destinations table is the one init_db seeded after any sequence
\* of requests to register, login, add_trip, list_trips, trip_detail,
\* update_trip, delete_trip, trip_stats, spending and recommend, no request
\* changes it, and recommend changes neither it nor the trips table.
C12_CatalogImmutable ==
    [](destinations = SeedIfEmpty(<<>>)) /\ [][CatalogUntouched]_vars

C12_Witness ==
    /\ RecommendAnswered
    /\ Len(users) > 1
    /\ Len(trips) > 0
    /\ Cardinality({trips[i].user_id : i \in 1..Len(trips)}) > 1
    /\ destinations = SeedIfEmpty(<<>>)

\* Popularity of the catalog row a recommendation was read from.
PopularityOf(o) == destinations[o[2]].popularity

\* C13: among cold-start destinations of equal popularity the one stored
\* first comes first in the list, and of two such destinations of which only
\* one is in the list, the one in the list is the one stored first.
C13_ColdStartTieOrder ==
    IsColdStart =>
        /\ \A i, j \in 1..Len(Recs) :
              (i < j /\ PopularityOf(Recs[i].origin) = PopularityOf(Recs[j].origin))
                  => Recs[i].origin[2] < Recs[j].origin[2]
        /\ \A c \in 1..Len(destinations) : \A r \in Chosen :
              (<<"catalog", c>> \notin Chosen
                  /\ destinations[c].popularity = PopularityOf(r))
                  => r[2] < c

C13_Witness ==
    /\ IsColdStart
    /\ \E i, j \in 1..Len(Recs) :
          i < j /\ PopularityOf(Recs[i].origin) = PopularityOf(Recs[j].origin)
    /\ \E c \in 1..Len(destinations) : \E r \in Chosen :
          /\ <<"catalog", c>> \notin Chosen
          /\ destinations[c].popularity = PopularityOf(r)

\* C14: the distance of a to b is the distance of b to a, the distance of a
\* vector to itself is 0, and the distance of two vectors is 0 only when they
\* are equal.
C14_DistanceMetric ==
    \A i \in 1..Len(measured) :
        /\ measured[i].ab = measured[i].ba
        /\ measured[i].aa = 0
        /\ (measured[i].ab = 0) <=> (measured[i].a = measured[i].b)

\* The ids of the trips of the users other than u.
OthersTripIds(u) == {trips[i].id : i \in {j \in 1..Len(trips) : trips[j].user_id # u}}

NotFound == response'.status = 404 /\ response'.error = "Trip not found"

\* A body that passes the checks of update_trip.
PassesUpdateChecks(data) ==
    /\ IsNumber(data.budget) /\ data.budget >= 0
    /\ IsNumber(data.rating) /\ 0 <= data.rating /\ data.rating <= 50
    /\ data.start_date <= data.end_date

\* The step is a request of the caller of response' on a trip of another
\* user: trip_detail, delete_trip, or update_trip with a body of bodies.
OnOthersTrip(bodies) ==
    \E u \in UserIds \cap {response'.user} : \E trip_id \in OthersTripIds(u) :
        \/ TripDetail(u, trip_id)
        \/ DeleteTrip(u, trip_id)
        \/ \E data \in bodies : UpdateTrip(u, trip_id, data)

\* trip_detail, update_trip and delete_trip on a trip of another user answer
\* 404 "Trip not found" and leave the trips table as it was.
OthersTripNotFound ==
    \/ response'.op \notin {"trip_detail", "update_trip", "delete_trip"}
    \/ (NotFound /\ trips' = trips)
    \/ ~OnOthersTrip(AppTripData)

\* The same, update_trip taken with the bodies that pass its checks, and no
\* request on a trip of another user changes the trips table.
OthersTripNotFoundOrInvalid ==
    /\ \/ response'.op \notin {"trip_detail", "update_trip", "delete_trip"}
       \/ (NotFound /\ trips' = trips)
       \/ ~OnOthersTrip({data \in AppTripData : PassesUpdateChecks(data)})
    /\ \/ response'.op \notin {"trip_detail", "update_trip", "delete_trip"}
       \/ trips' = trips
       \/ ~OnOthersTrip(AppTripData)

\* list_trips answers the caller's rows, all of them and no other; recommend
\* takes its path by the number of the caller's rows, its target and the
\* trips it recommends are rows of the caller, and the catalog rows it leaves
\* out as visited are those named by the caller's rows.
ReadsOwnTrips ==
    /\ response.op = "list_trips" =>
          /\ {response.rows[i].id : i \in 1..Len(response.rows)}
                = {trips[i].id : i \in TripsOf(response.user)}
          /\ Len(response.rows) = Cardinality(TripsOf(response.user))
          /\ \A i \in 1..Len(response.rows) : \E j \in TripsOf(response.user) :
                response.rows[i] = [id |-> trips[j].id, destination |-> trips[j].destination,
                                    start_date |-> trips[j].start_date,
                                    end_date |-> trips[j].end_date,
                                    budget |-> trips[j].budget, rating |-> trips[j].rating]
    /\ (RecommendAnswered /\ response.status = 200) =>
          (IsColdStart <=> Cardinality(TripsOf(response.user)) < 3)
    /\ IsPersonalized =>
          /\ \E i \in TripsOf(response.user) : trips[i].id = response.target
          /\ \A i \in 1..Len(Recs) : Recs[i].origin \in Candidates
          /\ Len(Recs) = Min(3, Cardinality(Candidates))

\* C15 as stated: a request of user A on a trip of user B is answered 404 and
\* changes no row, and list_trips and recommend read the caller's rows only.
C15_PerUserIsolation == []ReadsOwnTrips /\ [][OthersTripNotFound]_vars

\* C15 as amended: update_trip answers 404 when the body passes its checks
\* (it answers 400 before it looks the trip up when the body does not).
C15_PerUserIsolationAmended == []ReadsOwnTrips /\ [][OthersTripNotFoundOrInvalid]_vars

C15_Witness ==
    /\ response.op \in {"update_trip", "delete_trip"}
    /\ response.status = 404
    /\ TripsOf(response.user) # {}
    /\ OthersTripIds(response.user) = {trips[i].id : i \in 1..Len(trips)} \ {trips[i].id : i \in TripsOf(response.user)}
    /\ Cardinality(OthersTripIds(response.user)) >= 2

\* A register request has ended with 201 or with 400.
RegisterEnds == response.op = "register" => response.status \in {201, 400}

UniqueUsernames ==
    \A i, j \in 1..Len(users) : users[i].username = users[j].username => i = j

\* A step that ends a register request with 201 adds one row, the row of the
\* normalized name, and one that ends it with 400 leaves the table as it was.
RegisterEffect ==
    \/ response'.op # "register"
    \/ (response' = response /\ users' = users)
    \/ /\ response'.status = 201
       /\ Len(users') = Len(users) + 1
       /\ SubSeq(users', 1, Len(users)) = users
       /\ users'[Len(users')].username = response'.username
       /\ users'[Len(users')].id = response'.user
       /\ response'.username # ""
       /\ response'.username = NormalizeUsername(response'.username)
    \/ (response'.status = 400 /\ users' = users)

\* C16: every register request ends with 201 and one new row for the
\* normalized name or with 400 and the users table unchanged, whatever the
\* interleaving of two requests, and no two rows share a username.
C16_RegisterOutcome == [](RegisterEnds /\ UniqueUsernames) /\ [][RegisterEffect]_vars

\* C17: a personalized response has min(3, unvisited catalog rows + trips of
\* the caller - 1) recommendations, at least 2, and when no catalog row is
\* unvisited all of them are other trips of the caller, none marked new.
C17_PersonalizedCount ==
    IsPersonalized =>
        /\ Len(Recs) = Min(3, Cardinality(CatalogCandidates)
                                + Cardinality(TripsOf(response.user)) - 1)
        /\ Len(Recs) >= 2
        /\ CatalogCandidates = {} =>
              \A i \in 1..Len(Recs) :
                  /\ Recs[i].origin \in TripCandidates
                  /\ Recs[i].is_new = FALSE

C17_Witness ==
    /\ IsPersonalized
    /\ Len(destinations) > 0
    /\ CatalogCandidates = {}
    /\ Len(Recs) = 2

DatesOrdered == \A i \in 1..Len(trips) : trips[i].start_date <= trips[i].end_date

\* A step is no add_trip or update_trip request with the end date before the
\* start date, or it answers 400 and leaves the table as it was.
EndBeforeStartRejected ==
    \/ response'.op \notin {"add_trip", "update_trip"}
    \/ (response'.status = 400 /\ trips' = trips)
    \/ ~\E u \in UserIds \cap {response'.user} :
            \E data \in {d \in TripData : d.end_date < d.start_date} :
                \/ AddTrip(u, data)
                \/ \E trip_id \in TripIds : UpdateTrip(u, trip_id, data)

====
